---- MODULE Spec2Model ----
(***************************************************************************)
(* The retrieval subsystem of the customer support agent: the Redis-backed *)
(* CacheManager, the RAGTool (search with caching, add_document), the      *)
(* Chroma collection behind it, the TextChunker and the knowledge base     *)
(* populator.  Python values are modelled as follows: a str is a sequence  *)
(* of one-character strings (so lower, strip and slicing are computed), a  *)
(* dict is a function whose domain is the set of its keys, None is the     *)
(* record PyNone, an exception is the field raised = TRUE of the record an *)
(* operator returns.                                                       *)
(***************************************************************************)
EXTENDS Integers, Sequences, FiniteSets, TLC

VARIABLES
    redis_client,   \* CacheManager.redis_client: "client", or "None" after a failed ping
    redis,          \* the Redis database: key -> NoEntry or [data, expires]
    collection,     \* the Chroma collection: records in insertion order
    now,            \* wall clock, in seconds
    lastOp,         \* the last call: its parameters, the calls it made, its result
    run,            \* the KnowledgeBasePopulator run: position and arguments
    stats,          \* KnowledgeBasePopulator.stats
    chunker,        \* a TextChunker.chunk_text call in progress
    inflight        \* RAGTool calls served at the same time: where each one is

vars == <<redis_client, redis, collection, now, lastOp, run, stats, chunker, inflight>>

-----------------------------------------------------------------------------
(* Bounds of the model *)

MaxTime == 1800        \* the clock stops advancing here
MaxRecords == 4        \* records the collection may hold
HiddenSize == 2        \* length of an embedding (model.config.hidden_size, scaled down)

(* Program constants *)

SearchTtl == 1800          \* rag_tool.py:64  ttl=1800
DefaultNResults == 5       \* rag_tool.py:42  parameters.get("n_results", 5)

\* seconds the clock advances in one step: half the time a search result lives
TickStep == SearchTtl \div 2

-----------------------------------------------------------------------------
(* Python values *)

PyNone == [kind |-> "None"]

Whitespace == {" "}

LowerChar(c) == IF c = "A" THEN "a" ELSE IF c = "B" THEN "b" ELSE c

\* str.lower()
Lower(s) == [i \in 1..Len(s) |-> LowerChar(s[i])]

RECURSIVE LStrip(_)
LStrip(s) == IF s # <<>> /\ Head(s) \in Whitespace THEN LStrip(Tail(s)) ELSE s

RECURSIVE RStrip(_)
RStrip(s) ==
    IF s # <<>> /\ s[Len(s)] \in Whitespace THEN RStrip(SubSeq(s, 1, Len(s) - 1)) ELSE s

\* str.strip()
Strip(s) == RStrip(LStrip(s))

\* dict.get(key, default)
Get(d, key, default) == IF key \in DOMAIN d THEN d[key] ELSE default

\* a str parameter that may be missing: None, like "", is false, and both
\* read as <<>>
StrGet(d, key) == Get(d, key, <<>>)

\* truth value of a str
Truthy(s) == s # <<>>

\* a test that takes every cached value for a miss
TruthyValueNever(v) == FALSE

\* truth value of a cached value (None and the empty dict are false)
TruthyValue(v) == v # PyNone /\ v # <<>>

\* ids=None of ChromaClient.add (an id list that is given is never empty)
NoIds == <<>>

\* hashlib.md5(s.encode()).hexdigest(): injective on the strings of the model
Md5(s) == <<"md5", s>>

Min(a, b) == IF a < b THEN a ELSE b
Max(a, b) == IF a > b THEN a ELSE b

-----------------------------------------------------------------------------
(* Redis: the backing store of the cache.  A call on it either answers or   *)
(* raises (connection lost, timeout); fault = TRUE is the call that raises. *)

NoEntry == [kind |-> "nil"]
NoExpiry == -1

\* pickle.dumps / pickle.loads
PickleDumps(value) == [kind |-> "pickle", of |-> value]
PickleLoads(data) == data.of

\* a key f"{prefix}:{hash}:{n}"
Key(prefix, hash, n) == [prefix |-> prefix, hash |-> hash, n |-> n]

\* a pattern matching whatever the store holds
MatchesAny(key, pattern) == TRUE

\* KEYS pattern, for the glob patterns f"{prefix}:*"
Matches(key, pattern) == key.prefix = pattern.prefix

RedisSetex(store, key, ttl, data, t) ==
    [store EXCEPT ![key] = [kind |-> "entry", data |-> data, expires |-> t + ttl]]

RedisSet(store, key, data) ==
    [store EXCEPT ![key] = [kind |-> "entry", data |-> data, expires |-> NoExpiry]]

RedisKeys(store, pattern) ==
    {k \in DOMAIN store : store[k] # NoEntry /\ Matches(k, pattern)}

RedisDelete(store, keys) ==
    [k \in DOMAIN store |-> IF k \in keys THEN NoEntry ELSE store[k]]

\* keys whose time to live has run out no longer exist
Expire(store, t) ==
    [k \in DOMAIN store |->
        IF store[k] # NoEntry /\ store[k].expires # NoExpiry /\ store[k].expires <= t
        THEN NoEntry ELSE store[k]]

-----------------------------------------------------------------------------
(* CacheManager (core/cache.py).  Each method returns [ret, store, raised]. *)

IsAvailable(client) == client # "None"

\* the try block of CacheManager.set
SetTry(store, t, key, value, ttl, fault) ==
    IF fault
    THEN [ret |-> FALSE, store |-> store, raised |-> TRUE]
    ELSE [ret |-> TRUE,
          store |-> IF ttl # 0 THEN RedisSetex(store, key, ttl, PickleDumps(value), t)
                               ELSE RedisSet(store, key, PickleDumps(value)),
          raised |-> FALSE]

CacheSet(client, store, t, key, value, ttl, fault) ==
    IF ~IsAvailable(client)
    THEN [ret |-> FALSE, store |-> store, raised |-> FALSE]
    ELSE LET r == SetTry(store, t, key, value, ttl, fault)
         IN  IF r.raised THEN [ret |-> FALSE, store |-> store, raised |-> FALSE] ELSE r

\* a get that hands back the stored bytes without pickle.loads
GetTryNoLoads(store, key, fault) ==
    IF fault
    THEN [ret |-> PyNone, store |-> store, raised |-> TRUE]
    ELSE [ret |-> IF store[key] # NoEntry THEN store[key].data ELSE PyNone,
          store |-> store, raised |-> FALSE]

\* the try block of CacheManager.get
GetTry(store, key, fault) ==
    IF fault
    THEN [ret |-> PyNone, store |-> store, raised |-> TRUE]
    ELSE [ret |-> IF store[key] # NoEntry THEN PickleLoads(store[key].data) ELSE PyNone,
          store |-> store, raised |-> FALSE]

\* a get without the except clause
CacheGetNoExcept(client, store, key, fault) ==
    IF ~IsAvailable(client)
    THEN [ret |-> PyNone, store |-> store, raised |-> FALSE]
    ELSE GetTry(store, key, fault)

CacheGet(client, store, key, fault) ==
    IF ~IsAvailable(client)
    THEN [ret |-> PyNone, store |-> store, raised |-> FALSE]
    ELSE LET r == GetTry(store, key, fault)
         IN  IF r.raised THEN [ret |-> PyNone, store |-> store, raised |-> FALSE] ELSE r

\* the try block of CacheManager.delete
DeleteTry(store, key, fault) ==
    IF fault
    THEN [ret |-> FALSE, store |-> store, raised |-> TRUE]
    ELSE [ret |-> store[key] # NoEntry, store |-> RedisDelete(store, {key}),
          raised |-> FALSE]

CacheDelete(client, store, key, fault) ==
    IF ~IsAvailable(client)
    THEN [ret |-> FALSE, store |-> store, raised |-> FALSE]
    ELSE LET r == DeleteTry(store, key, fault)
         IN  IF r.raised THEN [ret |-> FALSE, store |-> store, raised |-> FALSE] ELSE r

\* the try block of CacheManager.clear_pattern: KEYS, then DEL of what it found;
\* keysFault and delFault are the two Redis calls raising
ClearTry(store, pattern, keysFault, delFault) ==
    IF keysFault
    THEN [ret |-> 0, store |-> store, raised |-> TRUE]
    ELSE LET keys == RedisKeys(store, pattern)
         IN  IF keys = {}
             THEN [ret |-> 0, store |-> store, raised |-> FALSE]
             ELSE IF delFault
                  THEN [ret |-> 0, store |-> store, raised |-> TRUE]
                  ELSE [ret |-> Cardinality(keys), store |-> RedisDelete(store, keys),
                        raised |-> FALSE]

ClearPattern(client, store, pattern, keysFault, delFault) ==
    IF ~IsAvailable(client)
    THEN [ret |-> 0, store |-> store, raised |-> FALSE]
    ELSE LET r == ClearTry(store, pattern, keysFault, delFault)
         IN  IF r.raised THEN [ret |-> 0, store |-> store, raised |-> FALSE] ELSE r

-----------------------------------------------------------------------------
(* EmbeddingModel (vector_store/embeddings.py).  The model itself is opaque: *)
(* a text is mapped to a vector of HiddenSize numbers computed from it.     *)

CharCode(c) == CASE c = "a" -> 1 [] c = "A" -> 2 [] c = "b" -> 3 [] c = "B" -> 4
                 [] OTHER -> 0

RECURSIVE CodeSum(_)
CodeSum(s) == IF s = <<>> THEN 0 ELSE CharCode(Head(s)) + CodeSum(Tail(s))

ModelForward(text) == [i \in 1..HiddenSize |-> IF i = 1 THEN CodeSum(text) ELSE Len(text)]

\* embed_query: the model's vector, or the model's exception, re-raised
EmbedQuery(text, fails) ==
    IF fails THEN [ret |-> PyNone, raised |-> TRUE]
             ELSE [ret |-> ModelForward(text), raised |-> FALSE]

EmbedDocument(text, fails) == EmbedQuery(text, fails)

ZeroVector == [i \in 1..HiddenSize |-> 0]

\* an embed_documents without the try around each item
EmbedDocumentsNoExcept(documents, failing) ==
    IF \E i \in 1..Len(documents) : EmbedDocument(documents[i], i \in failing).raised
    THEN [ret |-> PyNone, raised |-> TRUE]
    ELSE [ret |-> [i \in 1..Len(documents) |-> EmbedDocument(documents[i], FALSE).ret],
          raised |-> FALSE]

\* embed_documents: failing \subseteq 1..Len(documents) are the items whose
\* embedding raises; each gets the zero vector, and no exception leaves the loop
EmbedDocuments(documents, failing) ==
    [ret |-> [i \in 1..Len(documents) |->
                LET e == EmbedDocument(documents[i], i \in failing)
                IN  IF e.raised THEN ZeroVector ELSE e.ret],
     raised |-> FALSE]

-----------------------------------------------------------------------------
(* ChromaClient (vector_store/chroma_client.py) and the collection behind it *)

Ids(coll) == {coll[i].id : i \in 1..Len(coll)}

RECURSIVE SumSq(_, _, _)
SumSq(v, w, i) == IF i = 0 THEN 0 ELSE (v[i] - w[i]) * (v[i] - w[i]) + SumSq(v, w, i - 1)

Distance(v, w) == SumSq(v, w, Len(v))

NoDuplicates(ids) == \A i, j \in 1..Len(ids) : ids[i] = ids[j] => i = j

RECURSIVE Keep(_, _)
\* the records of seq whose id the collection does not hold yet
Keep(seq, held) ==
    IF seq = <<>> THEN <<>>
    ELSE IF Head(seq).id \in held THEN Keep(Tail(seq), held)
         ELSE <<Head(seq)>> \o Keep(Tail(seq), held)

\* ChromaClient.add: collection.add, any exception re-raised.  env.fails: the
\* store raises (I/O); env.dup: what this chromadb does with an id it already
\* holds ("raise", or "ignore": the held record stays).  collection.add
\* requires ids: given none, it raises
ChromaAdd(coll, documents, embeddings, metadatas, ids, env) ==
    LET failed == [coll |-> coll, raised |-> TRUE]
        n == Len(documents)
        recs == [i \in 1..n |-> [id |-> ids[i], document |-> documents[i],
                                 embedding |-> embeddings[i], metadata |-> metadatas[i]]]
    IN  IF env.fails THEN failed
        ELSE IF ids = NoIds THEN failed
        ELSE IF ~NoDuplicates(ids) THEN failed
        ELSE IF env.dup = "raise" /\ \E i \in 1..n : ids[i] \in Ids(coll) THEN failed
        ELSE [coll |-> coll \o Keep(recs, Ids(coll)), raised |-> FALSE]

RECURSIVE Nearest(_, _, _)
\* position of the record of coll[1..i] nearest to vec (the first among equals)
Nearest(coll, vec, i) ==
    IF i = 1 THEN 1
    ELSE LET j == Nearest(coll, vec, i - 1)
         IN  IF Distance(coll[i].embedding, vec) < Distance(coll[j].embedding, vec)
             THEN i ELSE j

Without(seq, j) == SubSeq(seq, 1, j - 1) \o SubSeq(seq, j + 1, Len(seq))

RECURSIVE Ranked(_, _, _)
\* the n nearest records, by ascending distance
Ranked(coll, vec, n) ==
    IF n <= 0 \/ coll = <<>> THEN <<>>
    ELSE LET j == Nearest(coll, vec, Len(coll))
         IN  <<coll[j]>> \o Ranked(Without(coll, j), vec, n - 1)

\* ChromaClient.query for one query embedding: the result's inner lists
ChromaQuery(coll, vec, n_results, fails) ==
    IF fails THEN [ret |-> PyNone, raised |-> TRUE]
    ELSE LET hits == Ranked(coll, vec, n_results)
         IN  [ret |-> [ids |-> [i \in 1..Len(hits) |-> hits[i].id],
                       documents |-> [i \in 1..Len(hits) |-> hits[i].document],
                       metadatas |-> [i \in 1..Len(hits) |-> hits[i].metadata],
                       distances |-> [i \in 1..Len(hits) |->
                                         Distance(hits[i].embedding, vec)]],
              raised |-> FALSE]

-----------------------------------------------------------------------------
(* RAGTool (tools/rag_tool.py) *)

ErrorResult(msg) == [error |-> msg]

GenerateCacheKey(query, n_results) == Key("rag_query", Md5(query), n_results)

\* a pattern that does not match the prefix of the search keys
RagPatternOtherPrefix == [prefix |-> "rag_result", glob |-> "*"]

RagPattern == [prefix |-> "rag_query", glob |-> "*"]

\* a _search that lists the hits last to first
SearchIndexReversed(coll, parameters, embedFails, queryFails) ==
    LET query == StrGet(parameters, "query")
        n_results == Get(parameters, "n_results", DefaultNResults)
        e == EmbedQuery(query, embedFails)
        q == ChromaQuery(coll, e.ret, n_results, queryFails)
        n == Len(q.ret.documents)
    IN  IF e.raised
        THEN [ret |-> ErrorResult("Search failed"), embed_calls |-> 1, query_calls |-> 0]
        ELSE IF q.raised
        THEN [ret |-> ErrorResult("Search failed"), embed_calls |-> 1, query_calls |-> 1]
        ELSE [ret |-> [documents |->
                          [i \in 1..n |->
                              [id |-> q.ret.ids[n + 1 - i],
                               content |-> q.ret.documents[n + 1 - i],
                               metadata |-> q.ret.metadatas[n + 1 - i],
                               distance |-> q.ret.distances[n + 1 - i]]]],
              embed_calls |-> 1, query_calls |-> 1]

\* RAGTool._search: [ret, embed_calls, query_calls]
SearchIndex(coll, parameters, embedFails, queryFails) ==
    LET query == StrGet(parameters, "query")
        n_results == Get(parameters, "n_results", DefaultNResults)
        e == EmbedQuery(query, embedFails)
        q == ChromaQuery(coll, e.ret, n_results, queryFails)
    IN  IF e.raised
        THEN [ret |-> ErrorResult("Search failed"), embed_calls |-> 1, query_calls |-> 0]
        ELSE IF q.raised
        THEN [ret |-> ErrorResult("Search failed"), embed_calls |-> 1, query_calls |-> 1]
        ELSE [ret |-> [documents |->
                          [i \in 1..Len(q.ret.documents) |->
                              [id |-> q.ret.ids[i], content |-> q.ret.documents[i],
                               metadata |-> q.ret.metadatas[i],
                               distance |-> q.ret.distances[i]]]],
              embed_calls |-> 1, query_calls |-> 1]

\* a _search_cached that writes the entry again when it serves it
SearchCachedRefresh(client, store, coll, t, parameters, f) ==
    LET query == StrGet(parameters, "query")
        n_results == Get(parameters, "n_results", DefaultNResults)
        cache_key == GenerateCacheKey(query, n_results)
        got == CacheGet(client, store, cache_key, f.get)
        result == SearchIndex(coll, parameters, f.embed, f.query)
        put == CacheSet(client, store, t, cache_key, result.ret, SearchTtl, f.set)
        again == CacheSet(client, store, t, cache_key, got.ret, SearchTtl, f.set)
        none == [ret |-> PyNone, cache_key |-> PyNone, cached_result |-> PyNone,
                 embed_calls |-> 0, query_calls |-> 0, cache_gets |-> 0,
                 cache_sets |-> 0, store |-> store, raised |-> FALSE]
    IN  IF ~Truthy(query)
        THEN [none EXCEPT !.ret = ErrorResult("Query is required")]
        ELSE IF got.raised
        THEN [none EXCEPT !.raised = TRUE, !.cache_key = cache_key, !.cache_gets = 1]
        ELSE IF TruthyValue(got.ret)
        THEN [none EXCEPT !.ret = got.ret, !.cache_key = cache_key,
                          !.cached_result = got.ret, !.cache_gets = 1,
                          !.store = again.store]
        ELSE [ret |-> IF put.raised THEN PyNone ELSE result.ret,
              cache_key |-> cache_key, cached_result |-> got.ret,
              embed_calls |-> result.embed_calls, query_calls |-> result.query_calls,
              cache_gets |-> 1, cache_sets |-> 1,
              store |-> put.store, raised |-> put.raised]

\* RAGTool._search_cached.  f.get, f.set: the cache's Redis call raises;
\* f.embed, f.query: the embedder, the index query raises
SearchCached(client, store, coll, t, parameters, f) ==
    LET query == StrGet(parameters, "query")
        n_results == Get(parameters, "n_results", DefaultNResults)
        cache_key == GenerateCacheKey(query, n_results)
        got == CacheGet(client, store, cache_key, f.get)
        result == SearchIndex(coll, parameters, f.embed, f.query)
        put == CacheSet(client, store, t, cache_key, result.ret, SearchTtl, f.set)
        none == [ret |-> PyNone, cache_key |-> PyNone, cached_result |-> PyNone,
                 embed_calls |-> 0, query_calls |-> 0, cache_gets |-> 0,
                 cache_sets |-> 0, store |-> store, raised |-> FALSE]
    IN  IF ~Truthy(query)
        THEN [none EXCEPT !.ret = ErrorResult("Query is required")]
        ELSE IF got.raised
        THEN [none EXCEPT !.raised = TRUE, !.cache_key = cache_key, !.cache_gets = 1]
        ELSE IF TruthyValue(got.ret)
        THEN [none EXCEPT !.ret = got.ret, !.cache_key = cache_key,
                          !.cached_result = got.ret, !.cache_gets = 1]
        ELSE [ret |-> IF put.raised THEN PyNone ELSE result.ret,
              cache_key |-> cache_key, cached_result |-> got.ret,
              embed_calls |-> result.embed_calls, query_calls |-> result.query_calls,
              cache_gets |-> 1, cache_sets |-> 1,
              store |-> put.store, raised |-> put.raised]

\* RAGTool._add_document.  f.embed: the embedder raises; f.chroma: how the
\* store answers the add; f.keys, f.del: the cache's Redis calls raise
AddDocument(client, store, coll, parameters, f) ==
    LET content == StrGet(parameters, "content")
        metadata == Get(parameters, "metadata", <<>>)
        e == EmbedDocument(content, f.embed)
        a == ChromaAdd(coll, <<content>>, <<e.ret>>, <<metadata>>,
                       IF "document_id" \in DOMAIN parameters
                       THEN <<parameters.document_id>> ELSE NoIds,
                       f.chroma)
        c == ClearPattern(client, store, RagPattern, f.keys, f.del)
        none == [ret |-> PyNone, embed_calls |-> 0, add_calls |-> 0, clear_calls |-> 0,
                 cleared |-> 0, store |-> store, coll |-> coll, raised |-> FALSE]
    IN  IF ~Truthy(content)
        THEN [none EXCEPT !.ret = ErrorResult("Content is required")]
        ELSE IF e.raised
        THEN [none EXCEPT !.ret = ErrorResult("Failed to add document"),
                          !.embed_calls = 1]
        ELSE IF a.raised
        THEN [none EXCEPT !.ret = ErrorResult("Failed to add document"),
                          !.embed_calls = 1, !.add_calls = 1]
        ELSE IF c.raised
        THEN [none EXCEPT !.ret = ErrorResult("Failed to add document"),
                          !.embed_calls = 1, !.add_calls = 1, !.clear_calls = 1,
                          !.coll = a.coll]
        ELSE [ret |-> [success |-> TRUE, message |-> "Document added successfully"],
              embed_calls |-> 1, add_calls |-> 1, clear_calls |-> 1,
              cleared |-> c.ret, store |-> c.store, coll |-> a.coll, raised |-> FALSE]

\* str(action) of parameters.get("action"): the action, "None" when there is none
ActionStr(parameters) == Get(parameters, "action", "None")

\* an error value that does not name the action
UnknownResultAnonymous(parameters) == ErrorResult("Unknown action")

\* {"error": f"Unknown action: {action}"}
UnknownResult(parameters) == ErrorResult("Unknown action: " \o ActionStr(parameters))

\* RAGTool.execute: [op, parameters, out], out being what the handler returned
Execute(client, store, coll, t, parameters, f) ==
    LET action == ActionStr(parameters)
    IN  IF "action" \in DOMAIN parameters /\ action = "search"
        THEN [op |-> "search", parameters |-> parameters,
              out |-> SearchCached(client, store, coll, t, parameters, f)]
        ELSE IF "action" \in DOMAIN parameters /\ action = "add_document"
        THEN [op |-> "add_document", parameters |-> parameters,
              out |-> AddDocument(client, store, coll, parameters, f)]
        ELSE [op |-> "unknown", parameters |-> parameters,
              out |-> [ret |-> UnknownResult(parameters), store |-> store,
                       coll |-> coll, raised |-> FALSE, embed_calls |-> 0,
                       query_calls |-> 0, add_calls |-> 0, cache_gets |-> 0,
                       cache_sets |-> 0, clear_calls |-> 0]]

-----------------------------------------------------------------------------
(* Inputs *)

\* query texts: two that differ in case only, one of whitespace only, the
\* empty string
QueryTexts == {<<"a">>, <<"A">>, <<" ">>, <<>>}

SearchParameters ==
    {[action |-> "search"]}
    \cup {[action |-> "search", query |-> q] : q \in QueryTexts}

AddParameters ==
    {[action |-> "add_document"],
     [action |-> "add_document", content |-> <<>>, document_id |-> "d1"],
     [action |-> "add_document", content |-> <<"a">>],
     [action |-> "add_document", content |-> <<"a">>, document_id |-> "d1",
      metadata |-> [source |-> "test"]]}

OtherParameters == {[action |-> "unknown", query |-> <<"a">>]}

\* searches with and without n_results, for texts at different distances
RetrievalParameters ==
    {[action |-> "search", query |-> q] : q \in {<<"a">>, <<"b">>}}
    \cup {[action |-> "search", query |-> q, n_results |-> 1] : q \in {<<"a">>, <<"b">>}}

\* documents added under ids of their own
IndexParameters ==
    {[action |-> "add_document", content |-> <<"a">>, document_id |-> "d1",
      metadata |-> [source |-> "test"]],
     [action |-> "add_document", content |-> <<"b">>, document_id |-> "d2",
      metadata |-> [source |-> "test"]]}

\* no action, an action of another tool, an action in another case
UnknownParameters ==
    OtherParameters
    \cup {[query |-> <<"a">>], [action |-> "delete", document_id |-> "d1"],
          [action |-> "Search", query |-> <<"a">>]}

RagKeys == {GenerateCacheKey(StrGet(p, "query"), Get(p, "n_results", DefaultNResults)) :
               p \in {p \in SearchParameters \cup RetrievalParameters :
                          Truthy(StrGet(p, "query"))}}
OtherKeys == {Key("session", Md5(<<"a">>), 0)}
Keys == RagKeys \cup OtherKeys

\* the keys other components are seen to use
DirectKeys == {GenerateCacheKey(<<"a">>, DefaultNResults), GenerateCacheKey(<<"A">>, DefaultNResults)}
              \cup OtherKeys

Patterns == {RagPattern, [prefix |-> "session", glob |-> "*"]}

\* values other components cache: a dict, None
DirectValues == {[user |-> "u1"], PyNone}
DirectTtls == {0, SearchTtl}

ChromaEnvs == [fails : BOOLEAN, dup : {"ignore", "raise"}]
NoFaults == [get |-> FALSE, set |-> FALSE, embed |-> FALSE, query |-> FALSE,
             keys |-> FALSE, del |-> FALSE,
             chroma |-> [fails |-> FALSE, dup |-> "ignore"]]
\* the calls a search can see raise, and those an add_document can
SearchFaults == {[NoFaults EXCEPT !.get = g, !.set = s, !.embed = e, !.query = q] :
                    g \in BOOLEAN, s \in BOOLEAN, e \in BOOLEAN, q \in BOOLEAN}
AddFaults == {[NoFaults EXCEPT !.embed = e, !.keys = k, !.del = d, !.chroma = c] :
                 e \in BOOLEAN, k \in BOOLEAN, d \in BOOLEAN, c \in ChromaEnvs}

\* what the log keeps of a handler's outcome: all but the stores themselves
Log(out) == [k \in DOMAIN out \ {"store", "coll"} |-> out[k]]

-----------------------------------------------------------------------------
(* TextChunker (scripts/populate_kb.py) *)

\* text[start:end] of Python, for any integers start and end
PySlice(s, start, end) ==
    LET n == Len(s)
        lo == IF start < 0 THEN Max(start + n, 0) ELSE Min(start, n)
        hi == IF end < 0 THEN Max(end + n, 0) ELSE Min(end, n)
    IN  IF lo < hi THEN SubSeq(s, lo + 1, hi) ELSE <<>>

\* d.copy() followed by update(u)
Update(d, u) == u @@ d

\* a short branch that drops a text of no characters
ShortChunksSkipEmpty(text, metadata) ==
    IF text = <<>> THEN <<>> ELSE <<[text |-> text, metadata |-> metadata]>>

\* chunk_text, the branch of len(text) <= chunk_size
ShortChunks(text, metadata) == <<[text |-> text, metadata |-> metadata]>>

\* a loop body that starts the next chunk where this one ended
ChunkIterationNoOverlap(text, metadata, chunk_size, chunk_overlap, chunks, start) ==
    LET reach == start + chunk_size
        end == IF reach > Len(text) - (chunk_overlap \div 2) THEN Len(text) ELSE reach
        chunk_text == PySlice(text, start, end)
        chunk_metadata == Update(metadata, [chunk_index |-> Len(chunks),
                                            chunk_start |-> start,
                                            chunk_end |-> end,
                                            chunk_size |-> Len(chunk_text)])
        appended == Append(chunks, [text |-> chunk_text, metadata |-> chunk_metadata])
    IN  IF end >= Len(text)
        THEN [chunks |-> appended, start |-> start, done |-> TRUE]
        ELSE [chunks |-> appended, start |-> end, done |-> FALSE]

\* a pass that never widens the chunk to the end of the text
ChunkIterationNoWiden(text, metadata, chunk_size, chunk_overlap, chunks, start) ==
    LET reach == start + chunk_size
        end == IF reach > Len(text) THEN Len(text) ELSE reach
        chunk_text == PySlice(text, start, end)
        chunk_metadata == Update(metadata, [chunk_index |-> Len(chunks),
                                            chunk_start |-> start,
                                            chunk_end |-> end,
                                            chunk_size |-> Len(chunk_text)])
        appended == Append(chunks, [text |-> chunk_text, metadata |-> chunk_metadata])
    IN  IF end >= Len(text)
        THEN [chunks |-> appended, start |-> start, done |-> TRUE]
        ELSE [chunks |-> appended, start |-> end - chunk_overlap, done |-> FALSE]

\* chunk_text, one pass through the body of the while loop:
\* [chunks, start, done], done being the break
ChunkIteration(text, metadata, chunk_size, chunk_overlap, chunks, start) ==
    LET reach == start + chunk_size
        end == IF reach > Len(text) - (chunk_overlap \div 2) THEN Len(text) ELSE reach
        chunk_text == PySlice(text, start, end)
        chunk_metadata == Update(metadata, [chunk_index |-> Len(chunks),
                                            chunk_start |-> start,
                                            chunk_end |-> end,
                                            chunk_size |-> Len(chunk_text)])
        appended == Append(chunks, [text |-> chunk_text, metadata |-> chunk_metadata])
    IN  IF end >= Len(text)
        THEN [chunks |-> appended, start |-> start, done |-> TRUE]
        ELSE [chunks |-> appended, start |-> end - chunk_overlap, done |-> FALSE]

RECURSIVE ChunkLoop(_, _, _, _, _, _)
\* chunk_text, the while loop (it ends when chunk_overlap < chunk_size)
ChunkLoop(text, metadata, chunk_size, chunk_overlap, chunks, start) ==
    IF ~(start < Len(text)) THEN chunks
    ELSE LET it == ChunkIteration(text, metadata, chunk_size, chunk_overlap, chunks, start)
         IN  IF it.done THEN it.chunks
             ELSE ChunkLoop(text, metadata, chunk_size, chunk_overlap, it.chunks, it.start)

ChunkText(text, metadata, chunk_size, chunk_overlap) ==
    IF Len(text) <= chunk_size
    THEN ShortChunks(text, metadata)
    ELSE ChunkLoop(text, metadata, chunk_size, chunk_overlap, <<>>, 0)

-----------------------------------------------------------------------------
(* DocumentProcessor and KnowledgeBasePopulator (scripts/populate_kb.py) *)

\* extract_text: text and metadata of a file, or the processor's exception
\* (file_size and processed_at play no part in what follows)
ExtractText(file) ==
    IF ~file.readable
    THEN [text |-> PyNone, metadata |-> PyNone, raised |-> TRUE]
    ELSE [text |-> file.text,
          metadata |-> [file_path |-> file.path, file_name |-> file.name,
                        file_type |-> file.type],
          raised |-> FALSE]

\* process_document: the chunks of one file
ProcessDocument(file, cfg) ==
    LET x == ExtractText(file)
    IN  IF x.raised THEN [ret |-> <<>>, raised |-> TRUE]
        ELSE IF ~Truthy(Strip(x.text)) THEN [ret |-> <<>>, raised |-> FALSE]
        ELSE [ret |-> ChunkText(x.text, x.metadata, cfg.chunk_size, cfg.chunk_overlap),
              raised |-> FALSE]

\* hashlib.md5(content.encode()).hexdigest() of an id string
Md5Hex(content) == "md5(" \o content \o ")"

\* an id taken from the position of the chunk alone
GenerateChunkIdOfIndex(chunk) ==
    IF {"file_path", "chunk_index"} \subseteq DOMAIN chunk.metadata
    THEN [ret |-> Md5Hex(ToString(chunk.metadata.chunk_index)), raised |-> FALSE]
    ELSE [ret |-> PyNone, raised |-> TRUE]

\* _generate_chunk_id: a chunk without chunk_index raises KeyError
GenerateChunkId(chunk) ==
    IF {"file_path", "chunk_index"} \subseteq DOMAIN chunk.metadata
    THEN [ret |-> Md5Hex(chunk.metadata.file_path \o ":"
                         \o ToString(chunk.metadata.chunk_index)),
          raised |-> FALSE]
    ELSE [ret |-> PyNone, raised |-> TRUE]

\* generate_embeddings: the embeddings of the chunks' texts, or the exception
\* of the call re-raised (f.outright: the call as a whole raises)
GenerateEmbeddings(chunks, f) ==
    IF f.outright
    THEN [ret |-> PyNone, raised |-> TRUE]
    ELSE EmbedDocuments([i \in 1..Len(chunks) |-> chunks[i].text], f.failing)

\* store_chunks: True and the collection after the add, or False
StoreChunks(coll, chunks, embeddings, env) ==
    LET n == Len(chunks)
        ids == [i \in 1..n |-> GenerateChunkId(chunks[i])]
        a == ChromaAdd(coll, [i \in 1..n |-> chunks[i].text], embeddings,
                       [i \in 1..n |-> chunks[i].metadata],
                       [i \in 1..n |-> ids[i].ret], env)
    IN  IF \E i \in 1..n : ids[i].raised
        THEN [ret |-> FALSE, coll |-> coll, add_calls |-> 0]
        ELSE IF a.raised
        THEN [ret |-> FALSE, coll |-> coll, add_calls |-> 1]
        ELSE [ret |-> TRUE, coll |-> a.coll, add_calls |-> 1]

\* a loop without the try: the first document that raises ends it
ProcessDocumentsNoExcept(documents, cfg) ==
    IF \E i \in 1..Len(documents) : ProcessDocument(documents[i], cfg).raised
    THEN [all_chunks |-> <<>>, processed |-> 0, failed |-> 1]
    ELSE [all_chunks |-> <<>>, processed |-> Len(documents), failed |-> 0]

RECURSIVE ProcessDocuments(_, _)
\* process_batch, the loop over the documents of the batch
ProcessDocuments(documents, cfg) ==
    IF documents = <<>> THEN [all_chunks |-> <<>>, processed |-> 0, failed |-> 0]
    ELSE LET d == ProcessDocument(Head(documents), cfg)
             rest == ProcessDocuments(Tail(documents), cfg)
         IN  IF d.raised
             THEN [rest EXCEPT !.failed = @ + 1]
             ELSE [rest EXCEPT !.all_chunks = d.ret \o @, !.processed = @ + 1]

NewStats == [documents_found |-> 0, documents_processed |-> 0, documents_failed |-> 0,
             chunks_created |-> 0, embeddings_generated |-> 0]

\* process_batch: [ret, coll, stats, all_chunks, add_calls]
ProcessBatch(coll, st, documents, cfg, f) ==
    LET d == ProcessDocuments(documents, cfg)
        counted == [st EXCEPT !.documents_processed = @ + d.processed,
                              !.documents_failed = @ + d.failed]
        e == GenerateEmbeddings(d.all_chunks, f)
        embeddings == e.ret
        embedded == [counted EXCEPT !.embeddings_generated = @ + Len(embeddings)]
        s == StoreChunks(coll, d.all_chunks, embeddings, f.chroma)
    IN  IF d.all_chunks = <<>>
        THEN [ret |-> TRUE, coll |-> coll, stats |-> counted,
              all_chunks |-> d.all_chunks, add_calls |-> 0]
        ELSE IF e.raised
        THEN [ret |-> FALSE, coll |-> coll, stats |-> counted,
              all_chunks |-> d.all_chunks, add_calls |-> 0]
        ELSE IF ~s.ret
        THEN [ret |-> FALSE, coll |-> coll, stats |-> embedded,
              all_chunks |-> d.all_chunks, add_calls |-> s.add_calls]
        ELSE [ret |-> TRUE, coll |-> s.coll,
              stats |-> [embedded EXCEPT !.chunks_created = @ + Len(d.all_chunks)],
              all_chunks |-> d.all_chunks, add_calls |-> s.add_calls]

-----------------------------------------------------------------------------
(* Actions of the online side *)

Idle == [pc |-> "idle"]

\* one call of RAGTool.execute with action "search"
Search(parameters, f) ==
    /\ f.get \/ f.set => IsAvailable(redis_client)
    /\ f # NoFaults => Truthy(StrGet(parameters, "query"))
    /\ f.query => ~f.embed
    /\ \E r \in {Execute(redis_client, redis, collection, now, parameters, f)} :
           LET made == [get |-> f.get /\ IsAvailable(redis_client) /\ r.out.cache_gets = 1,
                        set |-> f.set /\ IsAvailable(redis_client) /\ r.out.cache_sets = 1,
                        embed |-> f.embed /\ r.out.embed_calls = 1,
                        query |-> f.query /\ r.out.query_calls = 1,
                        keys |-> FALSE, del |-> FALSE, chroma |-> NoFaults.chroma]
           IN  /\ f = made
               /\ redis' = r.out.store
               /\ lastOp' = [op |-> r.op, parameters |-> parameters, f |-> f,
                             out |-> Log(r.out)]
               /\ UNCHANGED <<inflight, redis_client, collection, now, run, stats, chunker>>

\* one call of RAGTool.execute with action "add_document"
AddDocumentCall(parameters, f) ==
    /\ f.keys \/ f.del => IsAvailable(redis_client) /\ ~f.embed /\ ~f.chroma.fails
    /\ f # NoFaults => Truthy(StrGet(parameters, "content"))
    /\ f.chroma # NoFaults.chroma => ~f.embed
    /\ f.del => ~f.keys
    /\ \E r \in {Execute(redis_client, redis, collection, now, parameters, f)} :
           LET made == [get |-> FALSE, set |-> FALSE, query |-> FALSE,
                        embed |-> f.embed /\ r.out.embed_calls = 1,
                        keys |-> f.keys /\ IsAvailable(redis_client) /\ r.out.clear_calls = 1,
                        del |-> /\ f.del /\ IsAvailable(redis_client) /\ r.out.clear_calls = 1
                                /\ ~f.keys /\ RedisKeys(redis, RagPattern) # {},
                        chroma |-> IF r.out.add_calls = 1 THEN f.chroma ELSE NoFaults.chroma]
           IN  /\ f = made
               /\ Len(r.out.coll) <= MaxRecords
               /\ redis' = r.out.store
               /\ collection' = r.out.coll
               /\ lastOp' = [op |-> r.op, parameters |-> parameters, f |-> f,
                             out |-> Log(r.out)]
               /\ UNCHANGED <<inflight, redis_client, now, run, stats, chunker>>

\* one call of RAGTool.execute with any other action
UnknownAction(parameters) ==
    LET r == Execute(redis_client, redis, collection, now, parameters, NoFaults)
    IN  /\ lastOp' = [op |-> r.op, parameters |-> parameters, f |-> NoFaults,
                      out |-> Log(r.out)]
        /\ UNCHANGED <<inflight, redis_client, redis, collection, now, run, stats, chunker>>

\* another component calls cache_manager.set
Set(key, value, ttl, fault) ==
    LET r == CacheSet(redis_client, redis, now, key, value, ttl, fault)
    IN  /\ fault => IsAvailable(redis_client)
        /\ redis' = r.store
        /\ lastOp' = [op |-> "set", key |-> key, value |-> value, ttl |-> ttl,
                      fault |-> fault, out |-> Log(r)]
        /\ UNCHANGED <<inflight, redis_client, collection, now, run, stats, chunker>>

\* another component calls cache_manager.get
GetCall(key, fault) ==
    LET r == CacheGet(redis_client, redis, key, fault)
    IN  /\ fault => IsAvailable(redis_client)
        /\ redis' = r.store
        /\ lastOp' = [op |-> "get", key |-> key, fault |-> fault,
                      held |-> redis[key] # NoEntry, out |-> Log(r)]
        /\ UNCHANGED <<inflight, redis_client, collection, now, run, stats, chunker>>

\* another component calls cache_manager.delete
Delete(key, fault) ==
    LET r == CacheDelete(redis_client, redis, key, fault)
    IN  /\ fault => IsAvailable(redis_client)
        /\ redis' = r.store
        /\ lastOp' = [op |-> "delete", key |-> key, fault |-> fault, out |-> Log(r)]
        /\ UNCHANGED <<inflight, redis_client, collection, now, run, stats, chunker>>

\* another component calls cache_manager.clear_pattern
Clear(pattern, keysFault, delFault) ==
    LET r == ClearPattern(redis_client, redis, pattern, keysFault, delFault)
    IN  /\ keysFault => IsAvailable(redis_client)
        /\ delFault => IsAvailable(redis_client) /\ ~keysFault
                       /\ RedisKeys(redis, pattern) # {}
        /\ redis' = r.store
        /\ lastOp' = [op |-> "clear_pattern", pattern |-> pattern,
                      fault |-> keysFault \/ delFault, out |-> Log(r)]
        /\ UNCHANGED <<inflight, redis_client, collection, now, run, stats, chunker>>

\* time passes; Redis drops the keys that have expired
Tick ==
    /\ now + TickStep <= MaxTime
    /\ now' = now + TickStep
    /\ redis' = Expire(redis, now')
    /\ lastOp' = [op |-> "tick"]
    /\ UNCHANGED <<inflight, redis_client, collection, run, stats, chunker>>

-----------------------------------------------------------------------------
(* A search and an add_document served at the same time (two requests, in  *)
(* two threads or two workers on the same Redis and the same collection).  *)
(* Neither handler holds a lock: each call on Redis or on the collection   *)
(* is a step of its own, and the steps of the two handlers interleave.     *)

\* _search_cached, up to the test of the cached result: a hit returns
SearchGet(parameters) ==
    LET cache_key == GenerateCacheKey(StrGet(parameters, "query"),
                                      Get(parameters, "n_results", DefaultNResults))
        got == CacheGet(redis_client, redis, cache_key, FALSE)
    IN  /\ inflight.search.pc = "idle"
        /\ inflight' = IF TruthyValue(got.ret)
                       THEN inflight
                       ELSE [inflight EXCEPT !.search = [pc |-> "miss",
                                                         parameters |-> parameters,
                                                         cache_key |-> cache_key]]
        /\ lastOp' = [op |-> "search_get", hit |-> TruthyValue(got.ret)]
        /\ UNCHANGED <<redis_client, redis, collection, now, run, stats, chunker>>

\* _search_cached, the call of _search: the index as it is now
SearchCompute ==
    /\ inflight.search.pc = "miss"
    /\ inflight' = [inflight EXCEPT
                       !.search = [pc |-> "computed",
                                   parameters |-> inflight.search.parameters,
                                   cache_key |-> inflight.search.cache_key,
                                   result |-> SearchIndex(collection,
                                                          inflight.search.parameters,
                                                          FALSE, FALSE).ret]]
    /\ lastOp' = [op |-> "search_compute"]
    /\ UNCHANGED <<redis_client, redis, collection, now, run, stats, chunker>>

\* _search_cached, cache_manager.set and the return
SearchSet ==
    /\ inflight.search.pc = "computed"
    /\ redis' = CacheSet(redis_client, redis, now, inflight.search.cache_key,
                         inflight.search.result, SearchTtl, FALSE).store
    /\ inflight' = [inflight EXCEPT !.search = Idle]
    /\ lastOp' = [op |-> "search_set"]
    /\ UNCHANGED <<redis_client, collection, now, run, stats, chunker>>

\* _add_document, up to chroma_client.add: an exception returns the error
AddStore(parameters) ==
    LET content == StrGet(parameters, "content")
        a == ChromaAdd(collection, <<content>>, <<EmbedDocument(content, FALSE).ret>>,
                       <<Get(parameters, "metadata", <<>>)>>,
                       <<parameters.document_id>>, NoFaults.chroma)
    IN  /\ inflight.add.pc = "idle"
        /\ Truthy(content)
        /\ Len(a.coll) <= MaxRecords
        /\ collection' = a.coll
        /\ inflight' = IF a.raised THEN inflight
                       ELSE [inflight EXCEPT !.add = [pc |-> "added"]]
        /\ lastOp' = [op |-> "add_store", raised |-> a.raised]
        /\ UNCHANGED <<redis_client, redis, now, run, stats, chunker>>

\* _add_document, cache_manager.clear_pattern and the return
AddClear ==
    /\ inflight.add.pc = "added"
    /\ redis' = ClearPattern(redis_client, redis, RagPattern, FALSE, FALSE).store
    /\ inflight' = [inflight EXCEPT !.add = Idle]
    /\ lastOp' = [op |-> "add_clear"]
    /\ UNCHANGED <<redis_client, collection, now, run, stats, chunker>>

-----------------------------------------------------------------------------
(* The bulk population script: one run of populate(), batch by batch, while *)
(* the online side keeps serving                                            *)

\* the files a documents directory may hold, in the order of their paths
Files ==
    << [path |-> "docs/a.pdf", name |-> "a.pdf", type |-> ".pdf", readable |-> FALSE,
        text |-> <<>>],
       [path |-> "docs/b.txt", name |-> "b.txt", type |-> ".txt", readable |-> TRUE,
        text |-> <<"a", "b", "a">>],
       [path |-> "docs/c.md", name |-> "c.md", type |-> ".md", readable |-> TRUE,
        text |-> <<" ">>],
       [path |-> "docs/d.txt", name |-> "d.txt", type |-> ".txt", readable |-> TRUE,
        text |-> <<"a", "b">>] >>

RECURSIVE Listing(_, _)
\* discover_documents: the files of the directory, sorted by path
Listing(present, i) ==
    IF i > Len(Files) THEN <<>>
    ELSE (IF i \in present THEN <<Files[i]>> ELSE <<>>) \o Listing(present, i + 1)

ChunkConfigs == {[chunk_size |-> 2, chunk_overlap |-> 1]}
BatchSizes == {1, 2}
IngestFaults == [failing : {{}, {1}}, outright : BOOLEAN, chroma : ChromaEnvs]
NoIngestFaults == [failing |-> {}, outright |-> FALSE, chroma |-> NoFaults.chroma]

\* what the next run needs to know of the one before: a run that stored
\* batches and did not finish
Unfinished(r) == [documents |-> r.documents, batch_size |-> r.batch_size,
                  cfg |-> r.cfg]

\* a populate loop that goes on to the next batch whatever process_batch returned
AfterBatchKeepGoing(r, ret, stored) ==
    IF r.i + r.batch_size >= Len(r.documents)
    THEN [r EXCEPT !.pc = "returned", !.ret = TRUE,
                   !.stored = @ + (IF stored THEN 1 ELSE 0)]
    ELSE [r EXCEPT !.i = @ + r.batch_size, !.stored = @ + (IF stored THEN 1 ELSE 0)]

\* a populate loop that leaves out the document after each batch
AfterBatchSkip(r, ret, stored) ==
    IF ~ret
    THEN [r EXCEPT !.pc = "returned", !.ret = FALSE]
    ELSE IF r.i + r.batch_size + 1 >= Len(r.documents)
    THEN [r EXCEPT !.pc = "returned", !.ret = TRUE,
                   !.stored = @ + (IF stored THEN 1 ELSE 0)]
    ELSE [r EXCEPT !.i = @ + r.batch_size + 1,
                   !.stored = @ + (IF stored THEN 1 ELSE 0)]

\* populate(), what follows a process_batch: return False, return True after
\* the last batch, or go on
AfterBatch(r, ret, stored) ==
    IF ~ret
    THEN [r EXCEPT !.pc = "returned", !.ret = FALSE]
    ELSE IF r.i + r.batch_size >= Len(r.documents)
    THEN [r EXCEPT !.pc = "returned", !.ret = TRUE,
                   !.stored = @ + (IF stored THEN 1 ELSE 0)]
    ELSE [r EXCEPT !.i = @ + r.batch_size, !.stored = @ + (IF stored THEN 1 ELSE 0)]

\* populate() up to its first batch: clear_knowledge_base (which changes
\* nothing) and discover_documents.  clean: no call of the run has raised;
\* stored: batches stored; retry: the run before was the same and unfinished
Populate(present, batch_size, cfg) ==
    LET documents == Listing(present, 1)
        started == [pc |-> "batches", documents |-> documents, i |-> 0,
                    batch_size |-> batch_size, cfg |-> cfg, ret |-> TRUE,
                    clean |-> TRUE, stored |-> 0,
                    retry |-> /\ "prev" \in DOMAIN run
                              /\ run.prev = [documents |-> documents,
                                             batch_size |-> batch_size, cfg |-> cfg]]
    IN  /\ run.pc = "idle"
        /\ stats' = [NewStats EXCEPT !.documents_found = Len(documents)]
        /\ run' = IF documents = <<>>
                  THEN [started EXCEPT !.pc = "returned"]
                  ELSE started
        /\ lastOp' = [op |-> "populate", found |-> Len(documents)]
        /\ UNCHANGED <<inflight, redis_client, redis, collection, now, chunker>>

\* populate(), one turn of the loop over the batches: process_batch
ProcessBatchStep(f) ==
    /\ run.pc = "batches"
    /\ f.outright => f.failing = {} /\ f.chroma = NoFaults.chroma
    /\ \E r \in {ProcessBatch(collection, stats,
                              PySlice(run.documents, run.i, run.i + run.batch_size),
                              run.cfg, f)} :
          /\ f.failing \subseteq 1..Len(r.all_chunks)
          /\ f.outright => r.all_chunks # <<>>
          /\ r.add_calls = 0 => f.chroma = NoFaults.chroma
          /\ Len(r.coll) <= MaxRecords
          /\ collection' = r.coll
          /\ stats' = r.stats
          /\ run' = [AfterBatch(run, r.ret, r.ret /\ r.add_calls = 1)
                        EXCEPT !.clean = @ /\ f = NoIngestFaults]
          /\ lastOp' = [op |-> "process_batch", f |-> f, ret |-> r.ret,
                        stored |-> r.ret /\ r.add_calls = 1,
                        chunks |-> Len(r.all_chunks),
                        failed |-> r.stats.documents_failed - stats.documents_failed]
    /\ UNCHANGED <<inflight, redis_client, redis, now, chunker>>

\* main: populate() has returned and the script exits, with 0 for True
PopulateExit ==
    /\ run.pc = "returned"
    /\ run' = IF ~run.ret /\ run.stored > 0
              THEN [pc |-> "idle", prev |-> Unfinished(run)]
              ELSE Idle
    /\ lastOp' = [op |-> "exit", code |-> IF run.ret THEN 0 ELSE 1,
                  interrupted |-> FALSE, clean |-> run.clean,
                  documents |-> run.documents]
    /\ UNCHANGED <<inflight, redis_client, redis, collection, now, stats, chunker>>

\* main: KeyboardInterrupt between two batches
Interrupt ==
    /\ run.pc = "batches"
    /\ run.i > 0
    /\ run' = IF run.stored > 0
              THEN [pc |-> "idle", prev |-> Unfinished(run)]
              ELSE Idle
    /\ lastOp' = [op |-> "exit", code |-> 1, interrupted |-> TRUE,
                  clean |-> run.clean, documents |-> run.documents]
    /\ UNCHANGED <<inflight, redis_client, redis, collection, now, stats, chunker>>

-----------------------------------------------------------------------------
(* TextChunker.chunk_text on its own, one pass of its loop at a time *)

MaxTextLen == 3         \* every text over {a, b} up to this length
MaxLongLen == 7         \* one text of each length beyond, up to this one
MaxChunkSize == 5
MaxChunkOverlap == 4
MaxChunks == 8          \* passes of a loop that never ends

\* a text of n characters in which neighbours differ
LongText(n) == [i \in 1..n |-> IF i % 3 = 1 THEN "a" ELSE IF i % 3 = 2 THEN "b" ELSE "B"]

ChunkTexts == UNION {[1..k -> {"a", "b"}] : k \in 0..MaxTextLen}
              \cup {LongText(n) : n \in (MaxTextLen + 1)..MaxLongLen}
ChunkMetadata == [file_path |-> "docs/a.txt"]

\* chunk_text is called: the short branch returns, the other enters the loop
ChunkTextCall(text, chunk_size, chunk_overlap) ==
    /\ chunker = Idle
    /\ chunker' = IF Len(text) <= chunk_size
                  THEN [pc |-> "returned", text |-> text, chunk_size |-> chunk_size,
                        chunk_overlap |-> chunk_overlap,
                        chunks |-> ShortChunks(text, ChunkMetadata), start |-> 0]
                  ELSE [pc |-> "loop", text |-> text, chunk_size |-> chunk_size,
                        chunk_overlap |-> chunk_overlap, chunks |-> <<>>, start |-> 0]
    /\ UNCHANGED <<inflight, redis_client, redis, collection, now, lastOp, run, stats>>

\* one pass through the while loop
ChunkTextLoop ==
    /\ chunker.pc = "loop"
    /\ Len(chunker.chunks) < MaxChunks
    /\ chunker' =
          IF ~(chunker.start < Len(chunker.text))
          THEN [chunker EXCEPT !.pc = "returned"]
          ELSE LET it == ChunkIteration(chunker.text, ChunkMetadata, chunker.chunk_size,
                                        chunker.chunk_overlap, chunker.chunks,
                                        chunker.start)
               IN  [chunker EXCEPT !.pc = IF it.done THEN "returned" ELSE "loop",
                                   !.chunks = it.chunks, !.start = it.start]
    /\ UNCHANGED <<inflight, redis_client, redis, collection, now, lastOp, run, stats>>

-----------------------------------------------------------------------------
(* EmbeddingModel.embed_documents on its own *)

MaxBatch == 3

EmbedTexts == {<<>>, <<"a">>, <<"a", "b">>}
EmbedBatches == UNION {[1..n -> EmbedTexts] : n \in 0..MaxBatch}

\* one call of embed_documents; failing: the items whose embedding raises
EmbedDocumentsCall(documents, failing) ==
    /\ lastOp' = [op |-> "embed_documents", documents |-> documents,
                  failing |-> failing, out |-> EmbedDocuments(documents, failing)]
    /\ UNCHANGED <<inflight, redis_client, redis, collection, now, run, stats, chunker>>

-----------------------------------------------------------------------------
(* The population run from the list of documents on, with --clear or not.   *)
(* The list is taken in any order, to tell what depends on the order.       *)

\* an unreadable file and two files longer than chunk_size
BatchFiles ==
    << Files[1], Files[2],
       [path |-> "docs/e.txt", name |-> "e.txt", type |-> ".txt", readable |-> TRUE,
        text |-> <<"b", "a", "b">>] >>

\* the orders in which some of the files can be listed
Orders ==
    {o \in UNION {[1..n -> 1..Len(BatchFiles)] : n \in 0..Len(BatchFiles)} :
        \A i, j \in 1..Len(o) : o[i] = o[j] => i = j}

\* clear_knowledge_base: with clear_existing it logs that the knowledge base
\* was cleared and leaves the collection as it is; it returns True either way
ClearKnowledgeBase(coll, clear_existing) == [ret |-> TRUE, coll |-> coll]

\* populate() up to its first batch, over the documents in the order given.
\* held: the records the collection holds once clear_knowledge_base returned
PopulateFrom(order, batch_size, cfg, clear_existing) ==
    LET documents == [i \in 1..Len(order) |-> BatchFiles[order[i]]]
        c == ClearKnowledgeBase(collection, clear_existing)
        started == [pc |-> "batches", documents |-> documents, i |-> 0,
                    batch_size |-> batch_size, cfg |-> cfg, ret |-> TRUE,
                    clean |-> TRUE, stored |-> 0, retry |-> FALSE,
                    clear_existing |-> clear_existing, held |-> Len(c.coll)]
    IN  /\ run.pc = "idle"
        /\ c.ret
        /\ collection' = c.coll
        /\ stats' = [NewStats EXCEPT !.documents_found = Len(documents)]
        /\ run' = IF documents = <<>>
                  THEN [started EXCEPT !.pc = "returned"]
                  ELSE started
        /\ lastOp' = [op |-> "populate", found |-> Len(documents)]
        /\ UNCHANGED <<inflight, redis_client, redis, now, chunker>>

-----------------------------------------------------------------------------
(* ChromaClient.add on its own *)

IndexIds == {"d1", "d2"}
IndexTexts == {<<"a">>, <<"b">>}
IndexBatches ==
    UNION {[ids : [1..n -> IndexIds], documents : [1..n -> IndexTexts]] : n \in 1..2}

\* one call of ChromaClient.add
IndexAdd(batch, env) ==
    \E r \in {ChromaAdd(collection, batch.documents,
                        [i \in 1..Len(batch.documents) |-> ModelForward(batch.documents[i])],
                        [i \in 1..Len(batch.documents) |-> [source |-> "test"]],
                        batch.ids, env)} :
       /\ env.dup = "raise" => \E i \in 1..Len(batch.ids) : batch.ids[i] \in Ids(collection)
       /\ Len(r.coll) <= MaxRecords
       /\ collection' = r.coll
       /\ lastOp' = [op |-> "add", ids |-> batch.ids, documents |-> batch.documents,
                     env |-> env, raised |-> r.raised]
       /\ UNCHANGED <<inflight, redis_client, redis, now, run, stats, chunker>>

-----------------------------------------------------------------------------

Init ==
    /\ redis_client \in {"client", "None"}
    /\ redis = [k \in Keys |-> NoEntry]
    /\ collection = <<>>
    /\ now = 0
    /\ lastOp = [op |-> "init"]
    /\ run = Idle
    /\ stats = <<>>
    /\ chunker = Idle
    /\ inflight = [search |-> Idle, add |-> Idle]

Next ==
    \/ \E p \in SearchParameters, f \in SearchFaults : Search(p, f)
    \/ \E p \in AddParameters, f \in AddFaults : AddDocumentCall(p, f)
    \/ \E p \in OtherParameters : UnknownAction(p)
    \/ Tick

Spec == Init /\ [][Next]_vars

\* searches and adds with every call answering, while time passes
NextSearch ==
    \/ \E p \in RetrievalParameters : Search(p, NoFaults)
    \/ \E p \in IndexParameters : AddDocumentCall(p, NoFaults)
    \/ \E p \in UnknownParameters : UnknownAction(p)
    \/ Tick

SpecSearch == Init /\ [][NextSearch]_vars

\* a search and an add_document interleaved
NextRace ==
    \/ \E p \in RetrievalParameters : SearchGet(p)
    \/ SearchCompute
    \/ SearchSet
    \/ \E p \in IndexParameters : AddStore(p)
    \/ AddClear

SpecRace == Init /\ [][NextRace]_vars

\* the CacheManager on its own, called by any component with any key
NextCache ==
    \/ \E k \in DirectKeys, v \in DirectValues, ttl \in DirectTtls, fault \in BOOLEAN :
          Set(k, v, ttl, fault)
    \/ \E k \in DirectKeys, fault \in BOOLEAN : GetCall(k, fault)
    \/ \E k \in DirectKeys, fault \in BOOLEAN : Delete(k, fault)
    \/ \E p \in Patterns, kf \in BOOLEAN, df \in BOOLEAN : Clear(p, kf, df)

SpecCache == Init /\ [][NextCache]_vars

\* the population script running beside the online side
NextIngest ==
    \/ \E present \in SUBSET (1..Len(Files)), b \in BatchSizes, cfg \in ChunkConfigs :
          Populate(present, b, cfg)
    \/ ProcessBatchStep(NoIngestFaults)
    \/ PopulateExit
    \/ \E p \in SearchParameters : Search(p, NoFaults)

SpecIngest == Init /\ [][NextIngest]_vars

\* the population script on its own, interrupted and run again
NextPopulate ==
    \/ \E present \in SUBSET (1..Len(Files)), b \in BatchSizes, cfg \in ChunkConfigs :
          Populate(present, b, cfg)
    \/ \E f \in IngestFaults : ProcessBatchStep(f)
    \/ PopulateExit
    \/ Interrupt

SpecPopulate == Init /\ [][NextPopulate]_vars

\* population runs over lists in any order, one after the other
NextBatches ==
    \/ \E order \in Orders, b \in BatchSizes, cfg \in ChunkConfigs, c \in BOOLEAN :
          PopulateFrom(order, b, cfg, c)
    \/ \E f \in IngestFaults : ProcessBatchStep(f)
    \/ PopulateExit

SpecBatches == Init /\ [][NextBatches]_vars

\* the index on its own
NextIndex == \E batch \in IndexBatches, env \in ChromaEnvs : IndexAdd(batch, env)

SpecIndex == Init /\ [][NextIndex]_vars

\* the embedder on its own
NextEmbed ==
    \E documents \in EmbedBatches :
       \E failing \in SUBSET (1..Len(documents)) : EmbedDocumentsCall(documents, failing)

SpecEmbed == Init /\ [][NextEmbed]_vars

\* the chunker on its own
NextChunk ==
    \/ \E text \in ChunkTexts, chunk_size \in 1..MaxChunkSize,
          chunk_overlap \in 0..MaxChunkOverlap :
          ChunkTextCall(text, chunk_size, chunk_overlap)
    \/ ChunkTextLoop

SpecChunk == Init /\ [][NextChunk]_vars

-----------------------------------------------------------------------------
(* Properties of the cached search *)

\* the query and result count of the logged search
LoggedQuery(op) == StrGet(op.parameters, "query")
LoggedN(op) == Get(op.parameters, "n_results", DefaultNResults)
LoggedKey(op) == Key("rag_query", Md5(LoggedQuery(op)), LoggedN(op))

\* C1: after a search whose embedding or index query failed, the cache holds
\* no value under the key of that search.
C1_FailedSearchNotCached ==
    (lastOp.op = "search" /\ (lastOp.f.embed \/ lastOp.f.query))
        => redis[LoggedKey(lastOp)] = NoEntry

C4_HitReturnsCached ==
    [][/\ ( /\ lastOp'.op = "search"
            /\ LoggedQuery(lastOp') # <<>>
            /\ redis_client = "client" /\ ~lastOp'.f.get
            /\ redis[LoggedKey(lastOp')] # NoEntry )
          => /\ lastOp'.out.ret = redis[LoggedKey(lastOp')].data.of
             /\ lastOp'.out.embed_calls = 0 /\ lastOp'.out.query_calls = 0
             /\ lastOp'.out.cache_sets = 0
             /\ redis' = redis
       /\ ( /\ lastOp'.op = "search"
            /\ lastOp'.out.cache_sets = 1
            /\ redis_client = "client" /\ ~lastOp'.f.set )
          => /\ redis'[LoggedKey(lastOp')] # NoEntry
             /\ redis'[LoggedKey(lastOp')].data.of = lastOp'.out.ret
             /\ redis'[LoggedKey(lastOp')].expires = now + SearchTtl
      ]_vars

\* a hit, some time after the entry was written, that returned a document
C4_Witness ==
    /\ lastOp.op = "search" /\ now > 0
    /\ lastOp.out.cached_result # PyNone
    /\ lastOp.out.embed_calls = 0
    /\ "documents" \in DOMAIN lastOp.out.ret
    /\ lastOp.out.ret.documents # <<>>

Normalize(q) == Strip(Lower(q))

\* C5: a search is served from the entry a search for the same text up to
\* letter case and surrounding whitespace, with the same result count, wrote.
C5_NormalizedKey ==
    [][( /\ lastOp'.op = "search"
         /\ Normalize(LoggedQuery(lastOp')) # <<>>
         /\ redis_client = "client" /\ ~lastOp'.f.get
         /\ \E q \in QueryTexts :
               /\ Normalize(q) = Normalize(LoggedQuery(lastOp'))
               /\ redis[Key("rag_query", Md5(q), LoggedN(lastOp'))] # NoEntry )
       => /\ lastOp'.out.cached_result # PyNone
          /\ lastOp'.out.embed_calls = 0
      ]_vars

\* C6: a search whose query is missing, empty or only whitespace returns the
\* empty-query error, uses no cached value, calls neither the embedder nor
\* the index and writes nothing to the cache.
C6_BlankQueryRejected ==
    (lastOp.op = "search" /\ Strip(LoggedQuery(lastOp)) = <<>>)
        => /\ lastOp.out.ret = [error |-> "Query is required"]
           /\ lastOp.out.cached_result = PyNone
           /\ lastOp.out.embed_calls = 0 /\ lastOp.out.query_calls = 0
           /\ lastOp.out.cache_sets = 0

\* C9: with the cache store unavailable (no client since construction, or
\* every Redis call the handler makes raising), a search returns what embedding
\* and querying the index yield, an add_document whose embedding and index
\* add work returns success, the store is left as it was and nothing raises.
C9_CacheOutageDegrades ==
    [][/\ ( /\ lastOp'.op = "search"
            /\ LoggedQuery(lastOp') # <<>>
            /\ \/ redis_client = "None"
               \/ /\ lastOp'.f.get
                  /\ lastOp'.out.cache_sets = 1 => lastOp'.f.set )
          => /\ ~lastOp'.out.raised
             /\ lastOp'.out.cached_result = PyNone
             /\ lastOp'.out.ret =
                   SearchIndex(collection, lastOp'.parameters,
                               lastOp'.f.embed, lastOp'.f.query).ret
             /\ redis' = redis
       /\ ( /\ lastOp'.op = "add_document"
            /\ StrGet(lastOp'.parameters, "content") # <<>>
            /\ "document_id" \in DOMAIN lastOp'.parameters
            /\ ~lastOp'.f.embed /\ ~lastOp'.f.chroma.fails
            /\ lastOp'.f.chroma.dup = "ignore"
            /\ redis_client = "None" \/ lastOp'.f.keys \/ lastOp'.f.del )
          => /\ ~lastOp'.out.raised
             /\ "success" \in DOMAIN lastOp'.out.ret
             /\ redis' = redis
      ]_vars

\* a search during an outage at call time that returned a document, with an
\* entry under its key that it could not read
C9_Witness ==
    /\ lastOp.op = "search" /\ lastOp.f.get /\ lastOp.f.set
    /\ redis[LoggedKey(lastOp)] # NoEntry
    /\ "documents" \in DOMAIN lastOp.out.ret
    /\ lastOp.out.ret.documents # <<>>

-----------------------------------------------------------------------------
(* Properties of the CacheManager *)

\* C7: with the store available, get right after set(k, v, ttl) returns v;
\* get on a key the store does not hold returns None; neither raises.
C7_SetThenGet ==
    [][/\ ( /\ lastOp.op = "set" /\ redis_client = "client" /\ ~lastOp.fault
            /\ lastOp'.op = "get" /\ lastOp'.key = lastOp.key /\ ~lastOp'.fault )
          => lastOp'.out.ret = lastOp.value /\ ~lastOp'.out.raised
       /\ ( lastOp'.op = "get" /\ redis[lastOp'.key] = NoEntry )
          => lastOp'.out.ret = PyNone /\ ~lastOp'.out.raised
      ]_vars

\* a get that returned the dict a set stored
C7_Witness == lastOp.op = "get" /\ lastOp.out.ret = [user |-> "u1"]

-----------------------------------------------------------------------------
(* Properties of the population script *)

\* C3: after a batch that the script stored in the index, no search-result
\* entry is left in the cache.
C3_StoreInvalidates ==
    (lastOp.op = "process_batch" /\ lastOp.stored)
        => \A k \in RagKeys : redis[k] = NoEntry

\* C10: chunk_text of a text no longer than chunk_size returns exactly one
\* chunk, and its text is the whole input.
C10_ShortTextOneChunk ==
    (chunker.pc = "returned" /\ Len(chunker.text) <= chunker.chunk_size)
        => /\ Len(chunker.chunks) = 1
           /\ chunker.chunks[1].text = chunker.text

\* chunk_text returned for a text of exactly chunk_size characters
C10_Witness ==
    /\ chunker.pc = "returned"
    /\ chunker.text # <<>>
    /\ Len(chunker.text) = chunker.chunk_size
    /\ Len(chunker.chunks) = 1
    /\ chunker.chunks[1].text = chunker.text

-----------------------------------------------------------------------------
(* Properties of the chunker *)

ChunkKeys == {"chunk_index", "chunk_start", "chunk_end", "chunk_size"}

\* C11: for a text longer than chunk_size, with chunk_overlap < chunk_size,
\* the chunks returned cover the text: the first starts at 0, the last ends
\* at len(text), every position lies in a chunk, no chunk starts after the
\* end of the one before, and consecutive chunks, the final pair at most
\* excepted, share exactly chunk_overlap characters.
C11_ChunksCoverText ==
    ( /\ chunker.pc = "returned"
      /\ Len(chunker.text) > chunker.chunk_size
      /\ chunker.chunk_overlap < chunker.chunk_size )
    => LET c == chunker.chunks
           n == Len(c)
       IN  /\ n >= 1
           /\ \A i \in 1..n : ChunkKeys \subseteq DOMAIN c[i].metadata
           /\ c[1].metadata.chunk_start = 0
           /\ c[n].metadata.chunk_end = Len(chunker.text)
           /\ \A p \in 0..(Len(chunker.text) - 1) :
                 \E i \in 1..n : /\ c[i].metadata.chunk_start <= p
                                 /\ p < c[i].metadata.chunk_end
           /\ \A i \in 1..(n - 1) :
                 c[i + 1].metadata.chunk_start <= c[i].metadata.chunk_end
           /\ \A i \in 1..(n - 2) :
                 c[i].metadata.chunk_end - c[i + 1].metadata.chunk_start
                    = chunker.chunk_overlap

\* a chunking of three chunks or more whose last chunk was widened to the end
\* of the text
C11_Witness ==
    /\ chunker.pc = "returned"
    /\ chunker.chunk_overlap > 0
    /\ chunker.chunk_overlap < chunker.chunk_size
    /\ Len(chunker.chunks) >= 2
    /\ chunker.chunks[Len(chunker.chunks)].metadata.chunk_size > chunker.chunk_size
    /\ chunker.chunks[Len(chunker.chunks)].metadata.chunk_end = Len(chunker.text)

\* C12: every chunk chunk_text returns carries chunk_index (its position,
\* from 0), chunk_start, chunk_end and chunk_size in its metadata, beside the
\* document's metadata, with text = text[chunk_start:chunk_end] and
\* chunk_size = chunk_end - chunk_start.
C12_ChunkMetadata ==
    chunker.pc = "returned"
    => \A i \in 1..Len(chunker.chunks) :
          LET m == chunker.chunks[i].metadata
          IN  /\ ChunkKeys \subseteq DOMAIN m
              /\ m.chunk_index = i - 1
              /\ chunker.chunks[i].text
                    = SubSeq(chunker.text, m.chunk_start + 1, m.chunk_end)
              /\ m.chunk_size = m.chunk_end - m.chunk_start
              /\ \A k \in DOMAIN ChunkMetadata : m[k] = ChunkMetadata[k]

\* C13: chunk_text returns: a pass of the loop that does not return leaves
\* start beyond the start of the chunk it emitted, so that end reaches
\* len(text) within len(text) passes.
C13_LoopAdvances ==
    (chunker.pc = "loop" /\ chunker.chunks # <<>>)
    => chunker.start > chunker.chunks[Len(chunker.chunks)].metadata.chunk_start

\* C14: every chunk chunk_text returns has an id, and chunks of different
\* chunk_index have different ids.
C14_ChunkIdDefined ==
    chunker.pc = "returned"
    => /\ \A i \in 1..Len(chunker.chunks) : ~GenerateChunkId(chunker.chunks[i]).raised
       /\ \A i, j \in 1..Len(chunker.chunks) :
             GenerateChunkId(chunker.chunks[i]).ret = GenerateChunkId(chunker.chunks[j]).ret
                => i = j

-----------------------------------------------------------------------------
(* Properties of the embedder and of the population run *)

\* C15: embed_documents of n texts returns n vectors in the order of the
\* texts and does not raise: the embedding of the text where the item
\* succeeds, a vector of hidden_size zeros where it fails, whatever the
\* number of items that fail.
C15_EmbedBatchTotal ==
    lastOp.op = "embed_documents"
    => /\ ~lastOp.out.raised
       /\ Len(lastOp.out.ret) = Len(lastOp.documents)
       /\ \A i \in 1..Len(lastOp.documents) :
             /\ Len(lastOp.out.ret[i]) = HiddenSize
             /\ lastOp.out.ret[i] =
                   IF i \in lastOp.failing
                   THEN [k \in 1..HiddenSize |-> 0]
                   ELSE ModelForward(lastOp.documents[i])

\* a batch of two texts or more, every one of which failed
C15_Witness ==
    /\ lastOp.op = "embed_documents"
    /\ Len(lastOp.documents) >= 2
    /\ lastOp.failing = 1..Len(lastOp.documents)
    /\ Len(lastOp.out.ret) = Len(lastOp.documents)

Readable(file) == file.readable

RECURSIVE ChunkCount(_, _)
\* chunks of the documents of a batch that can be read
ChunkCount(batch, cfg) ==
    IF batch = <<>> THEN 0
    ELSE (IF Head(batch).readable THEN Len(ProcessDocument(Head(batch), cfg).ret) ELSE 0)
         + ChunkCount(Tail(batch), cfg)

\* the batch the next process_batch gets
CurrentBatch == PySlice(run.documents, run.i, run.i + run.batch_size)

\* C16: process_batch counts each document whose extraction raises as failed,
\* once, and every other document of the batch as processed; the chunks of
\* the batch are those of the other documents; and it returns what it
\* returns for the batch without the failing documents.
C16_DocumentFailureIsolated ==
    [][lastOp'.op = "process_batch"
       => LET good == SelectSeq(CurrentBatch, Readable)
          IN  /\ stats'.documents_failed
                    = stats.documents_failed + Len(CurrentBatch) - Len(good)
              /\ stats'.documents_processed = stats.documents_processed + Len(good)
              /\ lastOp'.chunks = ChunkCount(CurrentBatch, run.cfg)
              /\ lastOp'.ret
                    = ProcessBatch(collection, stats, good, run.cfg, lastOp'.f).ret
              /\ ChunkCount(CurrentBatch, run.cfg) = 0 => lastOp'.ret
      ]_vars

\* a batch whose first document failed and whose second was stored
C16_Witness ==
    /\ lastOp.op = "process_batch"
    /\ lastOp.failed = 1
    /\ lastOp.stored
    /\ stats.documents_processed >= 1

\* C17: a run in which no call of the embedder or the index raised ends with
\* documents_found = n, documents_failed = the documents that cannot be
\* read, documents_processed = the others, and the script exits with 0.
C17_RunCounts ==
    (lastOp.op = "exit" /\ lastOp.clean /\ ~lastOp.interrupted)
    => LET n == Len(lastOp.documents)
           f == n - Len(SelectSeq(lastOp.documents, Readable))
       IN  /\ lastOp.code = 0
           /\ stats.documents_found = n
           /\ stats.documents_processed = n - f
           /\ stats.documents_failed = f

\* C18: a process_batch whose embedding or storing fails returns False; after
\* a process_batch that returned False populate returns False with the
\* collection as it was, no further batch is processed and the script exits
\* with 1.
C18_BatchFailureAborts ==
    [][/\ ( /\ lastOp'.op = "process_batch"
            /\ lastOp'.chunks > 0
            /\ lastOp'.f.outright \/ lastOp'.f.chroma.fails )
          => ~lastOp'.ret
       /\ ( lastOp'.op = "process_batch" /\ ~lastOp'.ret )
          => /\ run'.pc = "returned" /\ ~run'.ret
             /\ collection' = collection
       /\ ( run.pc = "returned" /\ ~run.ret )
          => /\ lastOp'.op = "exit" /\ lastOp'.code = 1
             /\ collection' = collection /\ stats' = stats
      ]_vars

\* the script has exited with 1 after an embedding that failed outright,
\* leaving documents unprocessed
C18_Witness ==
    /\ lastOp.op = "exit" /\ lastOp.code = 1 /\ ~lastOp.interrupted
    /\ ~lastOp.clean
    /\ stats.documents_processed + stats.documents_failed < stats.documents_found
    /\ stats.embeddings_generated = 0

\* C20: a run that repeats a run which stored batches and did not finish,
\* over the same documents with the same parameters, returns True, and the
\* collection then holds each id once.
C20_RetrySucceeds ==
    (run.pc = "returned" /\ run.retry /\ run.clean)
    => /\ run.ret
       /\ \A i, j \in 1..Len(collection) : collection[i].id = collection[j].id => i = j

-----------------------------------------------------------------------------
(* Properties of the index *)

\* C19: an add of records with ids of their own, the store answering,
\* succeeds whether or not the collection holds the ids, and leaves each id
\* once in the collection, with the text that was added last.
C19_AddUpserts ==
    [][( /\ lastOp'.op = "add"
         /\ ~lastOp'.env.fails
         /\ \A i, j \in 1..Len(lastOp'.ids) : lastOp'.ids[i] = lastOp'.ids[j] => i = j )
       => /\ ~lastOp'.raised
          /\ \A i, j \in 1..Len(collection') :
                collection'[i].id = collection'[j].id => i = j
          /\ \A i \in 1..Len(lastOp'.ids) :
                \E k \in 1..Len(collection') :
                   /\ collection'[k].id = lastOp'.ids[i]
                   /\ collection'[k].document = lastOp'.documents[i]
      ]_vars

-----------------------------------------------------------------------------
(* Properties of the search on its miss path and of the dispatch *)

\* C21: a search that finds no entry under its key, the embedder and the
\* index answering, embeds once, queries once, returns one record of id,
\* content, metadata and distance per hit of the index for the vector of the
\* query and n_results, in the order of the hits, and, the cache being
\* there, leaves that result under the key of the query and n_results, to
\* expire 1800 seconds later.
C21_MissComputesAndCaches ==
    [][( /\ lastOp'.op = "search"
         /\ lastOp'.f = NoFaults
         /\ Truthy(LoggedQuery(lastOp'))
         /\ redis[LoggedKey(lastOp')] = NoEntry )
       => LET hits == ChromaQuery(collection, ModelForward(LoggedQuery(lastOp')), LoggedN(lastOp'),
                                  FALSE).ret
              ret == lastOp'.out.ret
          IN  /\ lastOp'.out.embed_calls = 1
              /\ lastOp'.out.query_calls = 1
              /\ ~lastOp'.out.raised
              /\ DOMAIN ret = {"documents"}
              /\ Len(ret.documents) = Len(hits.ids)
              /\ Len(ret.documents) = Min(LoggedN(lastOp'), Len(collection))
              /\ \A i \in 1..Len(hits.ids) :
                    ret.documents[i] = [id |-> hits.ids[i], content |-> hits.documents[i],
                                        metadata |-> hits.metadatas[i],
                                        distance |-> hits.distances[i]]
              /\ IsAvailable(redis_client)
                 => redis'[LoggedKey(lastOp')] = [kind |-> "entry", data |-> PickleDumps(ret),
                                          expires |-> now + SearchTtl]
      ]_vars

\* a miss that returned two hits, the nearer one being the record added last,
\* and cached them
C21_Witness ==
    /\ lastOp.op = "search"
    /\ redis_client = "client"
    /\ lastOp.out.cache_sets = 1
    /\ Len(lastOp.out.ret.documents) = 2
    /\ lastOp.out.ret.documents[1].id = collection[2].id
    /\ lastOp.out.ret.documents[1].distance < lastOp.out.ret.documents[2].distance
    /\ redis[LoggedKey(lastOp)] # NoEntry

\* C22: execute with an action that is neither "search" nor "add_document",
\* or with none, returns an error that names the action it was given, calls
\* neither the cache, nor the embedder, nor the index, and leaves the cache
\* and the collection as they were.
C22_UnknownActionRejected ==
    [][( /\ lastOp'.op \in {"search", "add_document", "unknown"}
         /\ ~("action" \in DOMAIN lastOp'.parameters
              /\ lastOp'.parameters.action \in {"search", "add_document"}) )
       => /\ lastOp'.op = "unknown"
          /\ DOMAIN lastOp'.out.ret = {"error"}
          /\ lastOp'.out.ret.error
                = "Unknown action: "
                  \o (IF "action" \in DOMAIN lastOp'.parameters
                      THEN lastOp'.parameters.action ELSE "None")
          /\ lastOp'.out.cache_gets = 0 /\ lastOp'.out.cache_sets = 0
          /\ lastOp'.out.clear_calls = 0
          /\ lastOp'.out.embed_calls = 0
          /\ lastOp'.out.query_calls = 0 /\ lastOp'.out.add_calls = 0
          /\ ~lastOp'.out.raised
          /\ redis' = redis
          /\ collection' = collection
      ]_vars

\* an unknown action arriving while the cache holds a search result and the
\* collection a record
C22_Witness ==
    /\ lastOp.op = "unknown"
    /\ "action" \in DOMAIN lastOp.parameters
    /\ lastOp.parameters.action = "delete"
    /\ collection # <<>>
    /\ \E k \in RagKeys : redis[k] # NoEntry

\* C30: a search that finds an entry under its key returns it and leaves the
\* cache as it was, expiry included, without calling the embedder or the
\* index; a search that finds none computes the result and stores it to
\* expire 1800 seconds later; and no entry of a search outlives its expiry.
\* So a result computed at time t is served until t + 1800 and no longer.
C30_HitKeepsExpiry ==
    [][ /\ ( /\ lastOp'.op = "search"
             /\ lastOp'.f = NoFaults
             /\ Truthy(LoggedQuery(lastOp'))
             /\ IsAvailable(redis_client) )
           => IF redis[LoggedKey(lastOp')] # NoEntry
              THEN /\ redis' = redis
                   /\ now < redis[LoggedKey(lastOp')].expires
                   /\ lastOp'.out.ret = PickleLoads(redis[LoggedKey(lastOp')].data)
                   /\ lastOp'.out.embed_calls = 0
                   /\ lastOp'.out.query_calls = 0
              ELSE /\ lastOp'.out.embed_calls = 1
                   /\ lastOp'.out.query_calls = 1
                   /\ redis'[LoggedKey(lastOp')].expires = now + SearchTtl
        /\ \A k \in RagKeys :
              redis'[k] # NoEntry
              => /\ now' < redis'[k].expires
                 /\ \/ redis[k] = redis'[k]
                    \/ redis'[k].expires = now + SearchTtl
      ]_vars

\* a result computed at time 0 and served again half its life later, its
\* expiry still that of the time it was computed
C30_Witness ==
    /\ lastOp.op = "search"
    /\ lastOp.out.cache_gets = 1
    /\ lastOp.out.cache_sets = 0
    /\ lastOp.out.embed_calls = 0
    /\ now = TickStep
    /\ redis[LoggedKey(lastOp)] # NoEntry
    /\ redis[LoggedKey(lastOp)].expires = SearchTtl

-----------------------------------------------------------------------------
(* Properties of the population run, continued *)

\* a file that can be read and holds no text, or whitespace only
Blank(file) == file.readable /\ ~Truthy(Strip(file.text))

\* a file that can be read and holds text
WithText(file) == file.readable /\ Truthy(Strip(file.text))

\* C23: process_batch counts a document whose text is empty or whitespace
\* as failed and not as processed, takes no chunk from it, and goes on with
\* the other documents of the batch: only the documents that hold text are
\* counted as processed, and the batch returns what it returns without the
\* blank documents.
C23_BlankDocumentFails ==
    [][lastOp'.op = "process_batch"
       => LET good == SelectSeq(CurrentBatch, WithText)
          IN  /\ stats'.documents_processed = stats.documents_processed + Len(good)
              /\ stats'.documents_failed
                    = stats.documents_failed + Len(CurrentBatch) - Len(good)
              /\ lastOp'.chunks = ChunkCount(good, run.cfg)
              /\ lastOp'.ret
                    = ProcessBatch(collection, stats, good, run.cfg, lastOp'.f).ret
      ]_vars

\* what the index keeps of a chunk
Stored(id, text, metadata) == [id |-> id, document |-> text, metadata |-> metadata]

\* the records of the chunks of a set of files, each under the id of its
\* path and position
RecordsOf(files, cfg) ==
    UNION {LET chunks == ProcessDocument(file, cfg).ret
           IN  {Stored(Md5Hex(file.path \o ":" \o ToString(i - 1)), chunks[i].text,
                       chunks[i].metadata) : i \in 1..Len(chunks)} :
           file \in {f \in files : WithText(f)}}

\* the records the collection holds at the positions first to last
Held(first, last) ==
    {Stored(collection[i].id, collection[i].document, collection[i].metadata) :
        i \in first..last}

\* C24: a run that returns success leaves in the index the records it held
\* before and the records of the chunks of the documents, which depend on the
\* set of the documents alone: neither on the order of the list nor on
\* batch_size.
C24_OrderIndependent ==
    (run.pc = "returned" /\ run.ret /\ "held" \in DOMAIN run)
    => LET files == {run.documents[i] : i \in 1..Len(run.documents)}
       IN  /\ Held(1, Len(collection)) = Held(1, run.held) \cup RecordsOf(files, run.cfg)
           /\ run.held = 0 => Held(1, Len(collection)) = RecordsOf(files, run.cfg)
           /\ NoDuplicates([i \in 1..Len(collection) |-> collection[i].id])

\* a successful run over two files with text, listed against the order of
\* their paths and stored in two batches
C24_Witness ==
    /\ run.pc = "returned" /\ run.ret /\ "held" \in DOMAIN run
    /\ run.held = 0
    /\ run.batch_size = 1
    /\ Len(run.documents) >= 2
    /\ run.documents[1].path = "docs/e.txt"
    /\ run.documents[2].path = "docs/b.txt"
    /\ Len(collection) = 4

\* C25: in a run started with --clear, once a batch has been stored the
\* index holds no record that it held before the run: clear_knowledge_base
\* left none, and at the end of a successful run the index holds the records
\* of this run only.
C25_ClearEmptiesIndex ==
    ( /\ "clear_existing" \in DOMAIN run
      /\ run.clear_existing
      /\ run.stored > 0 )
    => /\ run.held = 0
       /\ (run.pc = "returned" /\ run.ret)
          => Held(1, Len(collection))
                = RecordsOf({run.documents[i] : i \in 1..Len(run.documents)}, run.cfg)

\* C29: all along a run documents_processed + documents_failed stays within
\* documents_found and chunks_created within embeddings_generated; a
\* process_batch adds to chunks_created the chunks of its batch when its
\* store succeeded and nothing otherwise; and when the run returns success,
\* chunks_created and embeddings_generated both equal the number of records
\* the run has put into the index.
C29_Counters ==
    [][ /\ run'.pc \in {"batches", "returned"}
           => /\ stats'.documents_processed + stats'.documents_failed
                    <= stats'.documents_found
              /\ stats'.chunks_created <= stats'.embeddings_generated
        /\ lastOp'.op = "process_batch"
           => stats'.chunks_created
                 = stats.chunks_created + (IF lastOp'.stored THEN lastOp'.chunks ELSE 0)
        /\ (run'.pc = "returned" /\ run'.ret /\ "held" \in DOMAIN run')
           => /\ stats'.chunks_created = stats'.embeddings_generated
              /\ stats'.chunks_created = Len(collection') - run'.held
      ]_vars

\* position of a file in the order of the paths
Position(file) == CHOOSE k \in 1..Len(Files) : Files[k] = file

\* documents passed to process_document so far in the run
Passed == stats.documents_processed + stats.documents_failed

\* C28, as stated: when populate has returned and the script exits, every
\* document found has been passed to process_document.
C28_EveryDocumentPassed ==
    (lastOp.op = "exit" /\ ~lastOp.interrupted) => Passed = stats.documents_found

\* C28, amended: the documents are listed in the order of their paths; each
\* process_batch gets the documents that follow those already passed, at
\* most batch_size of them and fewer only at the end of the list, and passes
\* each of them once; the loop goes on to the next batch only when the batch
\* was stored, the chunks of all documents passed being in the index; and a
\* run that returns success has passed every document once.
C28_BatchesInOrder ==
    [][ /\ lastOp'.op = "process_batch"
           => /\ run.i = Passed
              /\ Len(CurrentBatch) >= 1
              /\ Len(CurrentBatch) <= run.batch_size
              /\ \/ Len(CurrentBatch) = run.batch_size
                 \/ run.i + Len(CurrentBatch) = Len(run.documents)
              /\ Passed' = Passed + Len(CurrentBatch)
              /\ \A i, j \in 1..Len(run.documents) :
                    i < j => Position(run.documents[i]) < Position(run.documents[j])
              /\ run'.pc = "batches"
                 => /\ lastOp'.ret
                    /\ run'.i = Passed'
                    /\ \A rec \in RecordsOf({run.documents[k] : k \in 1..run'.i}, run.cfg) :
                          rec.id \in Ids(collection')
        /\ (run'.pc = "returned" /\ run'.ret) => Passed' = stats'.documents_found
      ]_vars

\* the last batch of a run over three documents in batches of two: one
\* document, after a batch that was stored
C28_Witness ==
    /\ lastOp.op = "process_batch"
    /\ run.pc = "returned" /\ run.ret
    /\ run.batch_size = 2
    /\ Len(run.documents) = 3
    /\ run.i = 2
    /\ run.stored >= 1
    /\ Passed = 3

-----------------------------------------------------------------------------
(* Properties of the chunker, continued *)

\* a chunking of a text longer than chunk_size, with chunk_overlap < chunk_size
LongChunking ==
    /\ chunker.pc = "returned"
    /\ Len(chunker.text) > chunker.chunk_size
    /\ chunker.chunk_overlap < chunker.chunk_size

\* every chunk but the last has chunk_size characters, and each chunk starts
\* chunk_size - chunk_overlap after the one before
RegularChunks ==
    \A i \in 1..(Len(chunker.chunks) - 1) :
       /\ Len(chunker.chunks[i].text) = chunker.chunk_size
       /\ chunker.chunks[i + 1].metadata.chunk_start
             = chunker.chunks[i].metadata.chunk_start
               + chunker.chunk_size - chunker.chunk_overlap

LastChunkLen == Len(chunker.chunks[Len(chunker.chunks)].text)

\* C27, as stated: the last chunk has at least chunk_overlap +
\* chunk_overlap // 2 characters and fewer than chunk_size + chunk_overlap // 2.
C27_LastChunkBounds ==
    LongChunking
    => /\ RegularChunks
       /\ LastChunkLen >= chunker.chunk_overlap + (chunker.chunk_overlap \div 2)
       /\ LastChunkLen < chunker.chunk_size + (chunker.chunk_overlap \div 2)

\* C27, amended: every chunk but the last has chunk_size characters and the
\* starts go up by chunk_size - chunk_overlap; the last chunk has more than
\* chunk_overlap characters, at least chunk_overlap + chunk_overlap // 2 when
\* it is not the only chunk, and at most chunk_size, or
\* chunk_size + chunk_overlap // 2 - 1 where that is more.
C27_ChunkLengths ==
    LongChunking
    => /\ RegularChunks
       /\ LastChunkLen > chunker.chunk_overlap
       /\ Len(chunker.chunks) > 1
          => LastChunkLen >= chunker.chunk_overlap + (chunker.chunk_overlap \div 2)
       /\ LastChunkLen <= Max(chunker.chunk_size,
                              chunker.chunk_size + (chunker.chunk_overlap \div 2) - 1)

\* a chunking whose last chunk, widened, is as long as it can be
C27_Witness ==
    /\ LongChunking
    /\ Len(chunker.chunks) >= 2
    /\ chunker.chunk_overlap >= 2
    /\ LastChunkLen = chunker.chunk_size + (chunker.chunk_overlap \div 2) - 1

-----------------------------------------------------------------------------
(* Properties of a search served beside an add_document *)

\* C26: when neither a search nor an add_document is in progress, every
\* search result the cache holds is the result the index gives now for that
\* query and n_results: none was computed from the index as it was before an
\* add.
C26_CacheFollowsIndex ==
    (inflight.search.pc = "idle" /\ inflight.add.pc = "idle")
    => \A p \in RetrievalParameters :
          redis[LoggedKey([parameters |-> p])] # NoEntry
          => PickleLoads(redis[LoggedKey([parameters |-> p])].data)
                = SearchIndex(collection, p, FALSE, FALSE).ret

====
